---- MODULE Spec2Model ----
(***************************************************************************)
(* Dual-encoder DTI model with kNN-blended classification input            *)
(* (RobertaDTIKNNFromPretrainedRobertaNoCrossAttn1) and the hub wrapper    *)
(* entry points that call it (RobertaHubInterface).                        *)
(*                                                                         *)
(* Tensors are vectors of encoder_embed_dim components (batch size 1).     *)
(* Numbers are exact fixed-point rationals: a tensor component v stands    *)
(* for v / FixedOne, a blend weight w for w / WeightOne and a scale factor *)
(* a for a / AlphaOne, so 0.8 is 8 and 0.707 is 707.                       *)
(***************************************************************************)
EXTENDS Integers, Sequences, FiniteSets, TLC

VARIABLES
    classification_heads,   \* self.classification_heads: name -> head
    pc,                     \* "idle", or "done" while the caller holds an outcome
    entry,                  \* the entry point of the call whose outcome is held
    args,                   \* the arguments forward() was (or would be) given
    frame,                  \* what that call did: encoders run, head input, outcome
    xfer,                   \* the held weight transfer: target, checkpoint, outcome
    build,                  \* the held build_model call: configuration and outcome
    parameters              \* the model's encoders: weights and requires_grad

vars == <<classification_heads, pc, entry, args, frame, xfer, build, parameters>>

----------------------------------------------------------------------------
(* Bounds of the model *)

\* args.encoder_embed_dim
encoder_embed_dim == 1
\* encoder_0.max_positions(), encoder_1.max_positions()
MaxPositions0 == 2
MaxPositions1 == 3
\* the largest num_classes a head is registered with
MaxClasses == 2

----------------------------------------------------------------------------
(* Values *)

WeightOne == 2 * 5
AlphaOne == WeightOne * WeightOne * WeightOne
FixedOne == WeightOne * AlphaOne

None == "<None>"
DefaultHeadName == "sentence_classification_head"
HeadNames == {DefaultHeadName, "h"}
Modes == {"no", "mol", "pro", "mol_pro"}
Vocab == {1, 2}
Weights == {5, 8}
Alphas == {707, AlphaOne}

Dim == 1..encoder_embed_dim

\* a tensor of encoder_embed_dim components, distinct per seed
Vec(seed) == [i \in Dim |-> FixedOne * (seed + i - 1)]
\* the default 0 of knn_cls_0 / knn_cls_1 broadcasts as the zero tensor
Zero == [i \in Dim |-> 0]

KnnTensors == {Zero, Vec(3)}
ClsTensors == {Vec(1), Vec(2)}

\* token sequences of one branch: boundary lengths around the limit
TokenSeqs(limit) ==
    {[p \in 1..n |-> v] : n \in {limit, limit + 1}, v \in Vocab}

max_positions(branch) == IF branch = 0 THEN MaxPositions0 ELSE MaxPositions1

----------------------------------------------------------------------------
(* Collaborators outside the model class *)

\* DTIRobertaEncoder.forward: one vector per position, a fixed function of
\* the branch, the tokens and features_only (features, or LM-head output).
encoder_forward(branch, tokens, features_only) ==
    [p \in 1..Len(tokens) |->
        Vec(1 + ((tokens[p] + 2 * Len(tokens) + p) % 4) + 4 * branch
            + (IF features_only THEN 0 ELSE 8))]

\* What an encoder does with more tokens than it has positions is not fixed
\* by the model class: it may fail inside the encoder or compute anyway.
OverlongOutcomes == {"raise", "run"}

\* GradMultiply.apply(x, scale): the forward value is x
GradMultiply(x, scale) == x

\* RobertaClassificationHead(input_dim, inner_dim, num_classes, ...)
RobertaClassificationHead(input_dim, inner_dim, num_classes) ==
    [input_dim |-> input_dim, inner_dim |-> inner_dim, num_classes |-> num_classes]

\* head(x): the logits, one per class, as an uninterpreted application
ApplyHead(head, x) == [head |-> head, input |-> x]

\* the value of a name bound to None
NoneValue == [head |-> None, input |-> <<>>]

\* --grad-multiply default
grad_multiply == 1

----------------------------------------------------------------------------
(* forward: tensor expressions *)

\* x[:, 0, :]
FirstPosition(x) == x[1]

\* torch.cat((a, b), 1)
Cat(a, b) == a \o b

\* alpha * (w * own + (1 - w) * knn); both divisions are exact
Blend(alpha, w, own, knn) ==
    [i \in Dim |->
        (alpha * ((w * own[i] + (WeightOne - w) * knn[i]) \div WeightOne))
            \div AlphaOne]

\* mutant: the molecule branch blended with the protein branch's weight and kNN
BlendOf0_protein_side(a, own) ==
    Blend(a.alpha, a.knn_embedding_weight_1, own, a.knn_cls_1)

\* the blend of each branch, with that branch's weight and kNN embedding
BlendOf0(a, own) == Blend(a.alpha, a.knn_embedding_weight_0, own, a.knn_cls_0)
BlendOf1(a, own) == Blend(a.alpha, a.knn_embedding_weight_1, own, a.knn_cls_1)

\* mutant: mode 'mol' blends the molecule half
HeadInputFull_mol_blends(a, x_0, x_1) ==
    IF a.use_which_embedding = "mol_pro"
    THEN Cat(BlendOf0(a, FirstPosition(x_0)), BlendOf1(a, FirstPosition(x_1)))
    ELSE IF a.use_which_embedding = "mol"
    THEN Cat(BlendOf0(a, FirstPosition(x_0)), FirstPosition(x_1))
    ELSE Cat(FirstPosition(x_0), FirstPosition(x_1))

\* the head input built in full dual-branch mode
HeadInputFull(a, x_0, x_1) ==
    IF a.use_which_embedding = "mol_pro"
    THEN Cat(BlendOf0(a, FirstPosition(x_0)), BlendOf1(a, FirstPosition(x_1)))
    ELSE Cat(FirstPosition(x_0), FirstPosition(x_1))

\* mutant: the plain head input is cls_0 followed by cls_1
HeadInputMlp_mol_then_pro(a) ==
    IF a.use_which_embedding = "mol_pro"
    THEN Cat(BlendOf0(a, a.cls_0), BlendOf1(a, a.cls_1))
    ELSE Cat(a.cls_0, a.cls_1)

\* the head input built in precomputed-embedding mode
HeadInputMlp(a) ==
    IF a.use_which_embedding = "mol_pro"
    THEN Cat(BlendOf0(a, a.cls_0), BlendOf1(a, a.cls_1))
    ELSE Cat(a.cls_1, a.cls_1)

\* mutant: full mode returns the blended embeddings, as precomputed mode does
ReturnFull_blended(a, x, x_0, x_1) ==
    <<x, BlendOf0(a, FirstPosition(x_0)), BlendOf1(a, FirstPosition(x_1))>>

\* return x, x_0[:, 0, :], x_1[:, 0, :]
ReturnFull(a, x, x_0, x_1) == <<x, FirstPosition(x_0), FirstPosition(x_1)>>

\* mutant: the blended embeddings are returned in mode 'mol_pro' only
ReturnMlp_blend_in_mol_pro_only(a, x) ==
    IF a.use_which_embedding = "mol_pro"
    THEN <<x, BlendOf0(a, a.cls_0), BlendOf1(a, a.cls_1)>>
    ELSE <<x, a.cls_0, a.cls_1>>

\* return x, alpha * (w0 * cls_0 + ...), alpha * (w1 * cls_1 + ...)
ReturnMlp(a, x) == <<x, BlendOf0(a, a.cls_0), BlendOf1(a, a.cls_1)>>

\* return x_0[:, 0, :]
ReturnMolCls(x_0) == <<FirstPosition(x_0)>>

----------------------------------------------------------------------------
(* forward: outcomes *)

NoFrame ==
    [ran |-> {}, looked |-> FALSE, invoked |-> FALSE, head_input |-> <<>>,
     status |-> "none", error |-> "", branch |-> 0 - 1, length |-> 0,
     limit |-> 0, ret |-> <<>>, warned |-> FALSE]

Returned(ran, looked, invoked, head_input, ret) ==
    [NoFrame EXCEPT !.ran = ran, !.looked = looked, !.invoked = invoked,
                    !.head_input = head_input, !.status = "return", !.ret = ret]

Raised(ran, looked, head_input, error) ==
    [NoFrame EXCEPT !.ran = ran, !.looked = looked, !.head_input = head_input,
                    !.status = "raise", !.error = error]

\* self.encoder_b(src_tokens_b, features_only, return_all_hiddens, **kwargs)
EncoderFails(branch, tokens, ov) ==
    Len(tokens) > max_positions(branch) /\ ov = "raise"

\* if classification_head_name is not None: features_only = True
FeaturesOnly(a) ==
    IF a.classification_head_name # None THEN TRUE ELSE a.features_only

\* mutant: a missing head is skipped, x stays the fused tensor
HeadStep_skips_missing(heads, a, x) ==
    LET scaled == GradMultiply(x, grad_multiply)
    IN  IF a.classification_head_name \notin DOMAIN heads
        THEN [ok |-> TRUE, given |-> scaled, logits |-> ApplyHead(None, scaled)]
        ELSE [ok |-> TRUE, given |-> scaled,
              logits |-> ApplyHead(heads[a.classification_head_name], scaled)]

\* the tail shared by both modes once the head input x is built:
\* x = GradMultiply.apply(x, ...); x = self.classification_heads[name](x)
HeadStep(heads, a, x) ==
    LET scaled == GradMultiply(x, grad_multiply)
    IN  IF a.classification_head_name \notin DOMAIN heads
        THEN [ok |-> FALSE, given |-> scaled, logits |-> NoneValue]
        ELSE [ok |-> TRUE, given |-> scaled,
              logits |-> ApplyHead(heads[a.classification_head_name], scaled)]

forward_mol_cls(heads, a, ov) ==
    IF EncoderFails(0, a.src_tokens_0, ov)
    THEN Raised({0}, FALSE, <<>>, "EncoderError")
    ELSE Returned({0}, FALSE, FALSE, <<>>,
                  ReturnMolCls(encoder_forward(0, a.src_tokens_0, FeaturesOnly(a))))

forward_full(heads, a, ov) ==
    LET x_0 == encoder_forward(0, a.src_tokens_0, FeaturesOnly(a))
        x_1 == encoder_forward(1, a.src_tokens_1, FeaturesOnly(a))
    IN  IF EncoderFails(0, a.src_tokens_0, ov)
        THEN Raised({0}, FALSE, <<>>, "EncoderError")
        ELSE IF EncoderFails(1, a.src_tokens_1, ov)
        THEN Raised({0, 1}, FALSE, <<>>, "EncoderError")
        ELSE IF a.classification_head_name = None
        \* x was never assigned: the return statement cannot read it
        THEN Raised({0, 1}, FALSE, <<>>, "UnboundLocalError")
        ELSE LET x == HeadInputFull(a, x_0, x_1)
                 h == HeadStep(heads, a, x)
             IN  IF ~h.ok
                 THEN Raised({0, 1}, TRUE, h.given, "KeyError")
                 ELSE Returned({0, 1}, TRUE, TRUE, h.given,
                               ReturnFull(a, h.logits, x_0, x_1))

\* mutant: precomputed mode still runs both encoders before using cls_0 / cls_1
forward_mlp_runs_encoders(heads, a, ov) ==
    IF EncoderFails(0, a.src_tokens_0, ov)
    THEN Raised({0}, FALSE, <<>>, "EncoderError")
    ELSE IF EncoderFails(1, a.src_tokens_1, ov)
    THEN Raised({0, 1}, FALSE, <<>>, "EncoderError")
    ELSE IF a.classification_head_name = None
    THEN Raised({0, 1}, FALSE, <<>>, "UnboundLocalError")
    ELSE LET x == HeadInputMlp(a)
             h == HeadStep(heads, a, x)
         IN  IF ~h.ok
             THEN Raised({0, 1}, TRUE, h.given, "KeyError")
             ELSE Returned({0, 1}, TRUE, TRUE, h.given, ReturnMlp(a, h.logits))

forward_mlp(heads, a, ov) ==
    IF a.classification_head_name = None
    THEN Raised({}, FALSE, <<>>, "UnboundLocalError")
    ELSE LET x == HeadInputMlp(a)
             h == HeadStep(heads, a, x)
         IN  IF ~h.ok
             THEN Raised({}, TRUE, h.given, "KeyError")
             ELSE Returned({}, TRUE, TRUE, h.given, ReturnMlp(a, h.logits))

\* mutant: use_only_mlp is tested before get_only_mol_cls
forward_mlp_first(heads, a, ov) ==
    IF a.use_only_mlp
    THEN forward_mlp(heads, a, ov)
    ELSE IF a.get_only_mol_cls
         THEN forward_mol_cls(heads, a, ov)
         ELSE forward_full(heads, a, ov)

forward(heads, a, ov) ==
    IF a.get_only_mol_cls
    THEN forward_mol_cls(heads, a, ov)
    ELSE IF ~a.use_only_mlp
         THEN forward_full(heads, a, ov)
         ELSE forward_mlp(heads, a, ov)

----------------------------------------------------------------------------
(* my_register_classification_head *)

ReRegisterWarns_needs_both(heads, name, num_classes, inner_dim) ==
    /\ name \in DOMAIN heads
    /\ num_classes # heads[name].num_classes
    /\ inner_dim # heads[name].inner_dim

RegisteredHead_single_width(num_classes, inner_dim) ==
    RobertaClassificationHead(
        encoder_embed_dim,
        IF inner_dim # 0 THEN inner_dim ELSE encoder_embed_dim,
        num_classes)

SetHead_keeps_existing(heads, name, head) ==
    [n \in DOMAIN heads \cup {name} |-> IF n \in DOMAIN heads THEN heads[n] ELSE head]

\* num_classes != prev_num_classes or inner_dim != prev_inner_dim
\* (inner_dim None is 0 here: both are falsy and differ from every stored width)
ReRegisterWarns(heads, name, num_classes, inner_dim) ==
    /\ name \in DOMAIN heads
    /\ \/ num_classes # heads[name].num_classes
       \/ inner_dim # heads[name].inner_dim

\* self.classification_heads[name] = RobertaClassificationHead(...)
RegisteredHead(num_classes, inner_dim) ==
    RobertaClassificationHead(
        2 * encoder_embed_dim,
        IF inner_dim # 0 THEN inner_dim ELSE encoder_embed_dim,
        num_classes)

SetHead(heads, name, head) ==
    [n \in DOMAIN heads \cup {name} |-> IF n = name THEN head ELSE heads[n]]

----------------------------------------------------------------------------
(* Arguments of direct forward calls *)

ForwardArgsRecord(t0, t1, k0, k1, fo, rah, name, mode, w0, w1, al, mlp, mol, c0, c1) ==
    [src_tokens_0 |-> t0, src_tokens_1 |-> t1, knn_cls_0 |-> k0, knn_cls_1 |-> k1,
     features_only |-> fo, return_all_hiddens |-> rah,
     classification_head_name |-> name, use_which_embedding |-> mode,
     knn_embedding_weight_0 |-> w0, knn_embedding_weight_1 |-> w1, alpha |-> al,
     use_only_mlp |-> mlp, get_only_mol_cls |-> mol, cls_0 |-> c0, cls_1 |-> c1]

\* forward's defaults for what a caller leaves out
DefaultArgs(t0, t1, name) ==
    ForwardArgsRecord(t0, t1, Zero, Zero, FALSE, FALSE, name, "no",
                      8, 8, 707, FALSE, FALSE, Zero, Zero)

NameArgs == {None} \cup HeadNames

\* full dual-branch calls; cls_0 and cls_1 are given but never read there
FullArgs ==
    {ForwardArgsRecord(t0, t1, k0, k1, FALSE, FALSE, name, mode, w0, w1, al,
                       FALSE, FALSE, Vec(2), Vec(1)) :
        t0 \in TokenSeqs(MaxPositions0), t1 \in TokenSeqs(MaxPositions1),
        k0 \in KnnTensors, k1 \in KnnTensors, name \in NameArgs, mode \in Modes,
        w0 \in Weights, w1 \in Weights, al \in Alphas}

\* precomputed-embedding calls: short and over-long token pairs
MlpArgs ==
    {ForwardArgsRecord([p \in 1..n |-> 1], [p \in 1..n |-> 2], k0, k1, FALSE, FALSE,
                       name, mode, w0, w1, al, TRUE, FALSE, c0, c1) :
        n \in {1, MaxPositions1 + 1},
        k0 \in KnnTensors, k1 \in KnnTensors, name \in NameArgs, mode \in Modes,
        w0 \in Weights, w1 \in Weights, al \in Alphas,
        c0 \in ClsTensors, c1 \in ClsTensors}

\* molecule-embedding-only calls
MolClsArgs ==
    {ForwardArgsRecord(t0, [p \in 1..n |-> 1], Zero, Vec(3), fo, FALSE, name, mode,
                       8, 5, 707, mlp, TRUE, Vec(1), Vec(2)) :
        t0 \in TokenSeqs(MaxPositions0), n \in {1, MaxPositions1 + 1},
        fo \in BOOLEAN, name \in NameArgs, mode \in {"no", "mol_pro"},
        mlp \in BOOLEAN}

ForwardArgs == FullArgs \cup MlpArgs \cup MolClsArgs

NoArgs == DefaultArgs(<<>>, <<>>, None)

\* the arguments of my_register_classification_head(name, num_classes, inner_dim)
RegisterArgs(name, num_classes, inner_dim) ==
    [num_classes |-> num_classes, inner_dim |-> inner_dim]
        @@ [NoArgs EXCEPT !.classification_head_name = name]

----------------------------------------------------------------------------
(* RobertaHubInterface: the entry points that call the dual-encoder model *)

HubEntries ==
    {"myextract_features_separate",
     "myextract_features_separate_pro_hidden",
     "myextract_features_separate_spec_pro",
     "myextract_features_separate_spec_pro_batch",
     "myextract_features_separate_batch",
     "myextract_features_separate_case_study",
     "myextract_features_separate_cls_attn",
     "myextract_features_separate_cls",
     "myextract_features_separate_knn_cls",
     "mypredict_separate"}

\* the entry points that test tokens.size(-1) against max_positions() first
\* (mypredict_separate through myextract_features_separate)
HubChecksLength(e) ==
    e \notin {"myextract_features_separate_spec_pro_batch",
              "myextract_features_separate_batch"}

\* how many names the entry point unpacks the model's result into
HubUnpacks(e) ==
    IF e \in {"myextract_features_separate_cls_attn",
              "myextract_features_separate_knn_cls"}
    THEN 5 ELSE 3

\* the entry points that read extra_0["inner_states"] under return_all_hiddens
HubReadsInnerStates(e) ==
    e \in {"myextract_features_separate",
           "myextract_features_separate_pro_hidden",
           "myextract_features_separate_spec_pro",
           "myextract_features_separate_spec_pro_batch",
           "myextract_features_separate_batch"}

\* F.log_softmax(features, dim=-1), uninterpreted
LogSoftmax(x) == [head |-> "log_softmax", input |-> x]

\* an entry point's tensor argument left at its default, the int 0
NoTensor == <<>>

\* The inputs of a hub call: e the entry point, t0 / t1 the tokens, rah
\* return_all_hiddens, name the head name, extra_0 / extra_1 the tensors the
\* entry point takes (final_hidden_1, or knn_cls_0 and knn_cls_1), mode the
\* use_which_embedding of knn_cls.
HubInput(e, t0, t1, rah, name, extra_0, extra_1, mode) ==
    [e |-> e, t0 |-> t0, t1 |-> t1, rah |-> rah, name |-> name,
     extra_0 |-> extra_0, extra_1 |-> extra_1, mode |-> mode]

\* the arguments the entry point gives (or would give) to the model
HubModelArgs(h) ==
    LET d == [DefaultArgs(h.t0, h.t1, h.name) EXCEPT
                 !.features_only = TRUE, !.return_all_hiddens = h.rah]
    IN  CASE h.e \in {"myextract_features_separate_spec_pro",
                      "myextract_features_separate_spec_pro_batch"} ->
                \* final_hidden_1 is the third positional argument: knn_cls_0
                [d EXCEPT !.knn_cls_0 = h.extra_0]
          [] h.e = "myextract_features_separate_knn_cls" /\ h.mode = "mol" ->
                [d EXCEPT !.knn_cls_0 = h.extra_0, !.use_which_embedding = "mol"]
          [] h.e = "myextract_features_separate_knn_cls" /\ h.mode = "pro" ->
                [d EXCEPT !.knn_cls_1 = h.extra_1, !.use_which_embedding = "pro"]
          [] h.e = "myextract_features_separate_knn_cls" /\ h.mode = "mol_pro" ->
                [d EXCEPT !.knn_cls_0 = h.extra_0, !.knn_cls_1 = h.extra_1,
                          !.use_which_embedding = "mol_pro"]
          [] OTHER -> d

\* knn_cls_0.to(...) / knn_cls_1.to(...) on the int 0
HubToFails(h) ==
    /\ h.e = "myextract_features_separate_knn_cls"
    /\ \/ h.mode \in {"mol", "mol_pro"} /\ h.extra_0 = NoTensor
       \/ h.mode \in {"pro", "mol_pro"} /\ h.extra_1 = NoTensor

\* what the entry point returns from the unpacked result
HubReturn(e, ret) ==
    CASE e \in {"myextract_features_separate_case_study",
                "myextract_features_separate_cls",
                "myextract_features_separate_cls_attn",
                "myextract_features_separate_knn_cls"} -> ret
      [] e = "myextract_features_separate_pro_hidden" -> <<ret[3]>>
      [] e = "mypredict_separate" -> <<LogSoftmax(ret[1])>>
      [] OTHER -> <<ret[1]>>

\* raise ValueError("tokens_b exceeds maximum length: {} > {}")
LengthExceeded(branch, tokens) ==
    [NoFrame EXCEPT !.status = "raise", !.error = "exceeds maximum length",
                    !.branch = branch, !.length = Len(tokens),
                    !.limit = max_positions(branch)]

Failed(f, error) == [f EXCEPT !.status = "raise", !.error = error, !.ret = <<>>]

hub_call(heads, h, ov) ==
    IF HubChecksLength(h.e) /\ Len(h.t0) > max_positions(0)
    THEN LengthExceeded(0, h.t0)
    ELSE IF HubChecksLength(h.e) /\ Len(h.t1) > max_positions(1)
    THEN LengthExceeded(1, h.t1)
    ELSE IF HubToFails(h)
    THEN Failed(NoFrame, "AttributeError")
    ELSE LET f == forward(heads, HubModelArgs(h), ov)
         IN  IF f.status = "raise" THEN f
             ELSE IF Len(f.ret) # HubUnpacks(h.e)
             THEN Failed(f, "not enough values to unpack")
             ELSE IF h.rah /\ HubReadsInnerStates(h.e)
             \* extra_0 is a tensor, not a dict
             THEN Failed(f, "IndexError")
             ELSE [f EXCEPT !.ret = HubReturn(h.e, f.ret)]

\* the inputs each entry point is called with
HubInputs(e) ==
    {HubInput(e, t0, t1, rah, name, x0, x1, mode) :
        t0 \in TokenSeqs(MaxPositions0), t1 \in TokenSeqs(MaxPositions1),
        rah \in (IF e = "myextract_features_separate_knn_cls"
                 THEN {FALSE} ELSE BOOLEAN),
        name \in NameArgs,
        x0 \in (CASE e = "myextract_features_separate_knn_cls" ->
                        KnnTensors \cup {NoTensor}
                  [] e \in {"myextract_features_separate_spec_pro",
                            "myextract_features_separate_spec_pro_batch"} ->
                        KnnTensors
                  [] OTHER -> {NoTensor}),
        x1 \in (IF e = "myextract_features_separate_knn_cls"
                THEN KnnTensors \cup {NoTensor} ELSE {NoTensor}),
        mode \in (IF e = "myextract_features_separate_knn_cls"
                  THEN Modes ELSE {"no"})}

\* mypredict_separate(tokens_0, tokens_1): the head it is given is not passed on
PredictInputs ==
    {HubInput("mypredict_separate", t0, t1, FALSE, DefaultHeadName,
              NoTensor, NoTensor, "no") :
        t0 \in TokenSeqs(MaxPositions0), t1 \in TokenSeqs(MaxPositions1)}

----------------------------------------------------------------------------
(* upgrade_state_dict_with_roberta_weights: weight transfer              *)
(*                                                                         *)
(* A key is the sequence of its characters; the part of a parameter name   *)
(* after the branch prefix is kept as one segment, which is sound because  *)
(* the code only looks at the first Len("encoder") + 1 characters.         *)
(* A checkpoint is a python dict: a sequence of entries with distinct      *)
(* keys, in insertion order. A target state dict is a function of keys.    *)

MaxCheckpointKeys == 3          \* entries of an enumerated checkpoint

EncoderWord == <<"e", "n", "c", "o", "d", "e", "r">>
DecoderWord == <<"d", "e", "c", "o", "d", "e", "r">>

EmbLayerNormWeight == "sentence_encoder.emb_layer_norm.weight"
EmbLayerNormBias == "sentence_encoder.emb_layer_norm.bias"
LayernormEmbeddingWeight == "sentence_encoder.layernorm_embedding.weight"
LayernormEmbeddingBias == "sentence_encoder.layernorm_embedding.bias"
EmbedTokensWeight == "sentence_encoder.embed_tokens.weight"

ParameterNames ==
    {EmbedTokensWeight, EmbLayerNormWeight, EmbLayerNormBias,
     LayernormEmbeddingWeight, LayernormEmbeddingBias}

\* "encoder" + sep + name, e.g. 'encoder.sentence_encoder.emb_layer_norm.weight'
PrefixedKey(word, sep, name) == word \o <<sep, name>>

LegacyWeightKey == PrefixedKey(EncoderWord, ".", LayernormEmbeddingWeight)
LegacyBiasKey == PrefixedKey(EncoderWord, ".", LayernormEmbeddingBias)
NewWeightKey == PrefixedKey(EncoderWord, ".", EmbLayerNormWeight)
NewBiasKey == PrefixedKey(EncoderWord, ".", EmbLayerNormBias)

\* keys a checkpoint file may hold: the encoder's parameters, a key that
\* begins with "encoder" but has no dot after it, and a decoder parameter
CheckpointKeys ==
    {PrefixedKey(EncoderWord, ".", n) : n \in ParameterNames}
        \cup {PrefixedKey(EncoderWord, "_", EmbedTokensWeight),
              PrefixedKey(DecoderWord, ".", EmbedTokensWeight)}

\* keys of an encoder's own state dict
TargetKeys == {<<n>> : n \in ParameterNames}

\* the tensor a checkpoint file stores under a key, and the tensor a freshly
\* built encoder holds under a key: all distinct
CheckpointTensor(key) == <<"checkpoint", key>>
TargetTensor(key) == <<"target", key>>

\* python dict operations on a sequence of entries
Keys(d) == {d[n].key : n \in DOMAIN d}
Get(d, key) == d[CHOOSE n \in DOMAIN d : d[n].key = key].value
Pop(d, key) == SelectSeq(d, LAMBDA e : e.key # key)
Put(d, key, value) ==
    IF key \in Keys(d)
    THEN [n \in DOMAIN d |->
            IF d[n].key = key THEN [key |-> key, value |-> value] ELSE d[n]]
    ELSE Append(d, [key |-> key, value |-> value])

\* key.startswith(word) and key[n:]
startswith(key, word) ==
    /\ Len(key) >= Len(word)
    /\ SubSeq(key, 1, Len(word)) = word
Slice(key, n) == SubSeq(key, n + 1, Len(key))

\* the branch-local name the loop looks up: key[len("encoder") + 1:]
Subkey(key) == Slice(key, Len(EncoderWord) + 1)

RenameLegacy_keeps(d, legacy, new) == d

\* d[new] = d.pop(legacy), when the legacy key is present
RenameLegacy(d, legacy, new) ==
    IF legacy \in Keys(d) THEN Put(Pop(d, legacy), new, Get(d, legacy)) ELSE d

\* the checkpoint after both renames
Renamed(roberta_state_dict) ==
    RenameLegacy(RenameLegacy(roberta_state_dict, LegacyWeightKey, NewWeightKey),
                 LegacyBiasKey, NewBiasKey)

\* the copy loop over the first n entries of the checkpoint, in dict order
RECURSIVE CopyMatching(_, _, _)
CopyMatching(state_dict, roberta_state_dict, n) ==
    IF n = 0 THEN [state_dict |-> state_dict, i |-> 0]
    ELSE LET prev == CopyMatching(state_dict, roberta_state_dict, n - 1)
             key == roberta_state_dict[n].key
             subkey == Subkey(key)
         IN IF startswith(key, EncoderWord) /\ subkey \in DOMAIN prev.state_dict
            THEN [state_dict |-> [prev.state_dict EXCEPT
                                    ![subkey] = roberta_state_dict[n].value],
                  i |-> prev.i + 1]
            ELSE prev

NoCount == -1

\* no weight transfer is held
NoXfer ==
    [status |-> "none", error |-> None, target |-> <<>>, exists |-> FALSE,
     checkpoint |-> <<>>, state_dict |-> <<>>, ret |-> None,
     logged |-> NoCount, reads |-> 0]

upgrade_state_dict_reads_first(state_dict, exists, checkpoint) ==
    LET call == [NoXfer EXCEPT !.target = state_dict, !.exists = exists,
                               !.checkpoint = checkpoint, !.reads = 1]
        roberta_state_dict == Renamed(checkpoint)
        copied == CopyMatching(state_dict, roberta_state_dict,
                               Len(roberta_state_dict))
    IN IF ~exists
       THEN [call EXCEPT !.status = "raise", !.error = "IOError",
                         !.state_dict = state_dict]
       ELSE [call EXCEPT !.status = "return",
                         !.state_dict = copied.state_dict,
                         !.ret = copied.state_dict,
                         !.logged = copied.i]

\* the whole call: state_dict is the caller's mapping (changed in place),
\* exists what os.path.exists answers, checkpoint the file's state["model"]
upgrade_state_dict_with_roberta_weights(state_dict, exists, checkpoint) ==
    LET call == [NoXfer EXCEPT !.target = state_dict, !.exists = exists,
                               !.checkpoint = checkpoint]
    IN IF ~exists
       THEN [call EXCEPT !.status = "raise", !.error = "IOError",
                         !.state_dict = state_dict]
       ELSE LET roberta_state_dict == Renamed(checkpoint)
                copied == CopyMatching(state_dict, roberta_state_dict,
                                       Len(roberta_state_dict))
            IN [call EXCEPT !.status = "return",
                            !.state_dict = copied.state_dict,
                            !.ret = copied.state_dict,
                            !.logged = copied.i,
                            !.reads = 1]

\* enumerated inputs: encoder state dicts and checkpoint files
RECURSIVE Checkpoints(_)
Checkpoints(n) ==
    IF n = 0 THEN {<<>>}
    ELSE LET shorter == Checkpoints(n - 1)
         IN shorter \cup
            {Append(d, [key |-> k, value |-> CheckpointTensor(k)]) :
                <<d, k>> \in {<<d, k>> \in shorter \X CheckpointKeys :
                                /\ Len(d) = n - 1
                                /\ k \notin Keys(d)}}

StateDicts == {[k \in ks |-> TargetTensor(k)] : ks \in SUBSET TargetKeys}

----------------------------------------------------------------------------
(* build_model and the two encoder constructors *)

NumTopChildren == 5             \* children of an encoder's sentence_encoder
NumSubChildren == 13            \* sub-children of each of those children

DEFAULT_MAX_MOLECULE_POSITIONS == 512
DEFAULT_MAX_PROTEIN_POSITIONS == 1024

\* i <= 3 and j <= 11 in the freezing loops
LastFrozenChild == 3
LastFrozenSubChild == 11

\* a max-positions attribute of args: not an attribute at all, None (the
\* option was declared but not given), or the number given
AbsentAttr == -1
NoneLimit == 0
PositionSettings(branch) == {AbsentAttr, NoneLimit, max_positions(branch)}

\* the configuration build_model is given, and what exists on disk
Configs ==
    [molecule_checkpoint_attr : BOOLEAN,
     protein_checkpoint_attr : BOOLEAN,
     init_molecule_encoder_only : BOOLEAN,
     init_protein_encoder_only : BOOLEAN,
     max_positions_molecule : PositionSettings(0),
     max_positions_protein : PositionSettings(1),
     molecule_checkpoint_exists : BOOLEAN,
     protein_checkpoint_exists : BOOLEAN]

NoConfig ==
    [molecule_checkpoint_attr |-> FALSE, protein_checkpoint_attr |-> FALSE,
     init_molecule_encoder_only |-> FALSE, init_protein_encoder_only |-> FALSE,
     max_positions_molecule |-> AbsentAttr, max_positions_protein |-> AbsentAttr,
     molecule_checkpoint_exists |-> FALSE, protein_checkpoint_exists |-> FALSE]

\* roberta_base_architecture fills in architecture hyperparameters; it is
\* taken to leave the attributes modelled here as they are
base_architecture(cfg) == cfg

\* what the encoder base class does when given None as its position limit
NoneLimitOutcomes == {"raise", "run"}

\* a freshly built encoder's own state dict, and the pretrained checkpoint file
EncoderStateDict == [k \in TargetKeys |-> TargetTensor(k)]
PretrainedCheckpoint ==
    <<[key |-> LegacyWeightKey, value |-> CheckpointTensor(LegacyWeightKey)],
      [key |-> PrefixedKey(EncoderWord, ".", EmbedTokensWeight),
       value |-> CheckpointTensor(PrefixedKey(EncoderWord, ".", EmbedTokensWeight))]>>

\* the parameters under sentence_encoder: child i's own ones (sub-child
\* OwnParams) and those of its sub-children 0 .. NumSubChildren - 1
OwnParams == -1
ParamPlaces == (0..(NumTopChildren - 1)) \X (OwnParams..(NumSubChildren - 1))

\* requires_grad of a freshly constructed encoder: every parameter trainable
FreshRequiresGrad == [place \in ParamPlaces |-> TRUE]

Frozen_whole_encoder(i, j) == TRUE

\* the freezing loops: is the parameter at sub-child j of child i set frozen
Frozen(i, j) ==
    IF i <= LastFrozenChild
    THEN TRUE
    ELSE j # OwnParams /\ j <= LastFrozenSubChild

\* requires_grad after the loops over one encoder
Freeze(requires_grad) ==
    [place \in DOMAIN requires_grad |->
        IF Frozen(place[1], place[2]) THEN FALSE ELSE requires_grad[place]]

\* no encoder constructor has run
NoEncoder ==
    [status |-> "none", error |-> None, limit |-> AbsentAttr, loaded |-> FALSE,
     checks |-> 0, reads |-> 0, weights |-> <<>>]

EncoderInit_ignores_missing(limit, skip, checkpoint_attr, exists, nl) ==
    IF limit = AbsentAttr
    THEN [NoEncoder EXCEPT !.status = "raise", !.error = "AttributeError"]
    ELSE [NoEncoder EXCEPT !.status = "return", !.limit = limit,
                           !.checks = IF skip THEN 0 ELSE 1,
                           !.weights = EncoderStateDict]

\* __init__ of an encoder from pretrained roberta: limit is the args attribute
\* read for super().__init__, skip the other branch's init-only flag
EncoderInit(limit, skip, checkpoint_attr, exists, nl) ==
    IF limit = AbsentAttr
    THEN [NoEncoder EXCEPT !.status = "raise", !.error = "AttributeError"]
    ELSE IF limit = NoneLimit /\ nl = "raise"
    THEN [NoEncoder EXCEPT !.status = "raise", !.error = "EncoderError"]
    ELSE IF skip
    THEN [NoEncoder EXCEPT !.status = "return", !.limit = limit,
                           !.weights = EncoderStateDict]
    ELSE IF ~checkpoint_attr
    THEN [NoEncoder EXCEPT !.status = "raise", !.error = "AssertionError",
                           !.limit = limit]
    ELSE LET t == upgrade_state_dict_with_roberta_weights(
                        EncoderStateDict, exists,
                        IF exists THEN PretrainedCheckpoint ELSE <<>>)
         IN IF t.status = "raise"
            THEN [NoEncoder EXCEPT !.status = "raise", !.error = t.error,
                                   !.limit = limit, !.checks = 1,
                                   !.reads = t.reads]
            ELSE [NoEncoder EXCEPT !.status = "return", !.limit = limit,
                                   !.loaded = TRUE, !.checks = 1,
                                   !.reads = t.reads, !.weights = t.ret]

MoleculeEncoderFromPretrainedRoberta(cfg, nl) ==
    EncoderInit(cfg.max_positions_molecule, cfg.init_protein_encoder_only,
                cfg.molecule_checkpoint_attr, cfg.molecule_checkpoint_exists, nl)

ProteinEncoderFromPretrainedRoberta(cfg, nl) ==
    EncoderInit(cfg.max_positions_protein, cfg.init_molecule_encoder_only,
                cfg.protein_checkpoint_attr, cfg.protein_checkpoint_exists, nl)

ConfigAsserts_paths_only(cfg) ==
    cfg.molecule_checkpoint_attr /\ cfg.protein_checkpoint_attr

\* the three assertions at the head of build_model
ConfigAsserts(cfg) ==
    /\ cfg.molecule_checkpoint_attr
    /\ cfg.protein_checkpoint_attr
    /\ ~(cfg.init_molecule_encoder_only /\ cfg.init_protein_encoder_only)

\* no build_model call is held
NoBuild ==
    [status |-> "none", error |-> None, cfg |-> NoConfig,
     encoders |-> <<>>,
     max_source_positions |-> AbsentAttr, max_target_positions |-> AbsentAttr,
     requires_grad |-> <<>>, model |-> FALSE]

\* build_model(args, task): encoders holds the constructor outcomes in the
\* order they ran (molecule, then protein), requires_grad the mask per encoder
build_model(cfg, nl) ==
    LET call == [NoBuild EXCEPT !.cfg = cfg]
    IN IF ~ConfigAsserts(cfg)
       THEN [call EXCEPT !.status = "raise", !.error = "AssertionError"]
       ELSE
       LET a == base_architecture(cfg)
           defaulted ==
               [call EXCEPT
                  !.max_source_positions =
                      IF a.max_positions_molecule = AbsentAttr
                      THEN DEFAULT_MAX_MOLECULE_POSITIONS ELSE AbsentAttr,
                  !.max_target_positions =
                      IF a.max_positions_protein = AbsentAttr
                      THEN DEFAULT_MAX_PROTEIN_POSITIONS ELSE AbsentAttr]
           encoder_0 == MoleculeEncoderFromPretrainedRoberta(a, nl)
           encoder_1 == ProteinEncoderFromPretrainedRoberta(a, nl)
       IN IF encoder_0.status = "raise"
          THEN [defaulted EXCEPT !.status = "raise", !.error = encoder_0.error,
                                 !.encoders = <<encoder_0>>]
          ELSE IF encoder_1.status = "raise"
          THEN [defaulted EXCEPT !.status = "raise", !.error = encoder_1.error,
                                 !.encoders = <<encoder_0, encoder_1>>]
          ELSE [defaulted EXCEPT !.status = "return",
                                 !.encoders = <<encoder_0, encoder_1>>,
                                 !.requires_grad = <<Freeze(FreshRequiresGrad),
                                                     Freeze(FreshRequiresGrad)>>,
                                 !.model = TRUE]

\* the configuration of a model whose construction succeeds with both
\* encoders loaded
LoadedConfig ==
    [molecule_checkpoint_attr |-> TRUE, protein_checkpoint_attr |-> TRUE,
     init_molecule_encoder_only |-> FALSE, init_protein_encoder_only |-> FALSE,
     max_positions_molecule |-> max_positions(0),
     max_positions_protein |-> max_positions(1),
     molecule_checkpoint_exists |-> TRUE, protein_checkpoint_exists |-> TRUE]

\* what cls(args, encoder_0, encoder_1) holds of its two encoders
ParametersOf(built) ==
    [weights |-> <<built.encoders[1].weights, built.encoders[2].weights>>,
     requires_grad |-> built.requires_grad]

ConstructedParameters == ParametersOf(build_model(LoadedConfig, "run"))

----------------------------------------------------------------------------
(* Actions *)

Init ==
    /\ classification_heads = <<>>
    /\ pc = "idle"
    /\ entry = "none"
    /\ args = NoArgs
    /\ frame = NoFrame
    /\ xfer = NoXfer
    /\ build = NoBuild
    /\ parameters = ConstructedParameters

\* model.my_register_classification_head(name, num_classes, inner_dim)
Register ==
    /\ pc = "idle"
    /\ \E name \in HeadNames, num_classes \in 1..MaxClasses,
          inner_dim \in {0, encoder_embed_dim + 1} :
        /\ classification_heads' =
               SetHead(classification_heads, name,
                       RegisteredHead(num_classes, inner_dim))
        /\ args' = RegisterArgs(name, num_classes, inner_dim)
        /\ frame' = [NoFrame EXCEPT
                        !.status = "return",
                        !.warned = ReRegisterWarns(classification_heads, name,
                                                   num_classes, inner_dim)]
    /\ entry' = "my_register_classification_head"
    /\ pc' = "done"
    /\ UNCHANGED <<xfer, build, parameters>>

Forward_forgets_head ==
    /\ pc = "idle"
    /\ \E a \in ForwardArgs, ov \in OverlongOutcomes :
        /\ args' = a
        /\ frame' = forward(classification_heads, a, ov)
        /\ classification_heads' =
              [n \in DOMAIN classification_heads \ {a.classification_head_name}
                  |-> classification_heads[n]]
    /\ entry' = "forward"
    /\ pc' = "done"
    /\ UNCHANGED <<xfer, build, parameters>>

\* model(src_tokens_0, src_tokens_1, ...) called directly
Forward ==
    /\ pc = "idle"
    /\ \E a \in ForwardArgs, ov \in OverlongOutcomes :
        /\ args' = a
        /\ frame' = forward(classification_heads, a, ov)
    /\ entry' = "forward"
    /\ pc' = "done"
    /\ UNCHANGED <<classification_heads, xfer, build, parameters>>

\* the caller takes the outcome; the call's frame is gone
Release ==
    /\ pc = "done"
    /\ pc' = "idle"
    /\ entry' = "none"
    /\ args' = NoArgs
    /\ frame' = NoFrame
    /\ xfer' = NoXfer
    /\ build' = NoBuild
    /\ UNCHANGED <<classification_heads, parameters>>

\* hub.<entry point>(tokens_0, tokens_1, ...)
Hub(e) ==
    /\ pc = "idle"
    /\ \E h \in (IF e = "mypredict_separate" THEN PredictInputs ELSE HubInputs(e)),
          ov \in OverlongOutcomes :
        /\ args' = HubModelArgs(h)
        /\ frame' = hub_call(classification_heads, h, ov)
    /\ entry' = e
    /\ pc' = "done"
    /\ UNCHANGED <<classification_heads, xfer, build, parameters>>

\* one call of the weight transfer on a fresh encoder's state dict
UpgradeStateDict ==
    /\ pc = "idle"
    /\ \E state_dict \in StateDicts, exists \in BOOLEAN,
          checkpoint \in Checkpoints(MaxCheckpointKeys) :
        /\ exists \/ checkpoint = <<>>
        /\ xfer' = upgrade_state_dict_with_roberta_weights(state_dict, exists,
                                                           checkpoint)
    /\ entry' = "upgrade_state_dict_with_roberta_weights"
    /\ pc' = "done"
    /\ UNCHANGED <<classification_heads, args, frame, build, parameters>>

\* one call of build_model on a configuration
BuildModel ==
    /\ pc = "idle"
    /\ \E cfg \in Configs, nl \in NoneLimitOutcomes :
        build' = build_model(cfg, nl)
    /\ entry' = "build_model"
    /\ pc' = "done"
    /\ UNCHANGED <<classification_heads, args, frame, xfer, parameters>>

Next == Register \/ Forward \/ (\E e \in HubEntries : Hub(e)) \/ Release

Spec == Init /\ [][Next]_vars

\* weight transfer on its own: construction-time code, before any forward
NextTransfer == UpgradeStateDict \/ Release

SpecTransfer == Init /\ [][NextTransfer]_vars

\* model construction on its own
NextBuild == BuildModel \/ Release

SpecBuild == Init /\ [][NextBuild]_vars

----------------------------------------------------------------------------
(* Properties *)

RegisterEntry == "my_register_classification_head"

\* the held outcome is that of a call that reached the model's forward
ModelCalled ==
    /\ pc = "done"
    /\ entry # RegisterEntry
    /\ frame.error \notin {"exceeds maximum length", "AttributeError"}

FullMode == ~args.get_only_mol_cls /\ ~args.use_only_mlp
MlpMode == ~args.get_only_mol_cls /\ args.use_only_mlp
HeadNamed == args.classification_head_name # None
WithinLimits ==
    /\ Len(args.src_tokens_0) <= MaxPositions0
    /\ Len(args.src_tokens_1) <= MaxPositions1

\* the pooled embeddings of the two encoders for the call's tokens
Pooled0 == encoder_forward(0, args.src_tokens_0, FeaturesOnly(args))[1]
Pooled1 == encoder_forward(1, args.src_tokens_1, FeaturesOnly(args))[1]

\* each branch's own embedding: freshly computed, or cls_0 / cls_1
Own0 == IF args.use_only_mlp THEN args.cls_0 ELSE Pooled0
Own1 == IF args.use_only_mlp THEN args.cls_1 ELSE Pooled1

\* v = alpha * (w * e + (1 - w) * k), cross-multiplied
IsBlend(v, al, w, e, k) == v * FixedOne = al * (w * e + (WeightOne - w) * k)

IsBlend0(t) ==
    \A i \in Dim : IsBlend(t[i], args.alpha, args.knn_embedding_weight_0,
                           Own0[i], args.knn_cls_0[i])
IsBlend1(t) ==
    \A i \in Dim : IsBlend(t[i], args.alpha, args.knn_embedding_weight_1,
                           Own1[i], args.knn_cls_1[i])

Half1(t) == SubSeq(t, 1, encoder_embed_dim)
Half2(t) == SubSeq(t, encoder_embed_dim + 1, 2 * encoder_embed_dim)

\* C1: with a head name and mode 'mol_pro' (get_only_mol_cls false), in full
\* and in precomputed mode, the head input is the molecule blend
\* alpha*(w0*own0 + (1-w0)*knn0) followed by the protein blend
\* alpha*(w1*own1 + (1-w1)*knn1), and that is what the head is applied to.
C1_MolProHeadInput ==
    (/\ ModelCalled /\ ~args.get_only_mol_cls /\ HeadNamed
     /\ args.use_which_embedding = "mol_pro" /\ frame.looked)
    => /\ Len(frame.head_input) = 2 * encoder_embed_dim
       /\ IsBlend0(Half1(frame.head_input))
       /\ IsBlend1(Half2(frame.head_input))
       /\ (entry = "forward" /\ frame.status = "return")
            => /\ frame.invoked
               /\ frame.ret[1].input = frame.head_input

C1_Witness ==
    /\ entry = "forward" /\ FullMode /\ frame.invoked
    /\ args.use_which_embedding = "mol_pro"
    /\ args.knn_embedding_weight_0 # args.knn_embedding_weight_1
    /\ args.knn_cls_0 # args.knn_cls_1
    /\ args.knn_cls_0 # Zero
    /\ args.alpha = 707

\* C2: in full dual-branch mode with a head name and mode 'no', 'mol' or
\* 'pro', the head input is the molecule pooled embedding followed by the
\* protein pooled embedding, whatever the kNN embeddings, weights and scale.
C2_PlainHeadInputFull ==
    (/\ ModelCalled /\ FullMode /\ HeadNamed
     /\ args.use_which_embedding # "mol_pro" /\ frame.looked)
    => /\ frame.head_input = Pooled0 \o Pooled1
       /\ (entry = "forward" /\ frame.status = "return")
            => /\ frame.invoked
               /\ frame.ret[1].input = Pooled0 \o Pooled1

C2_Witness ==
    /\ entry = "forward" /\ FullMode /\ frame.invoked
    /\ args.use_which_embedding = "mol"
    /\ args.knn_cls_0 # Zero
    /\ args.knn_embedding_weight_0 = 5
    /\ args.alpha = 707

\* C3: with get_only_mol_cls, whatever the other flags, only the molecule
\* encoder runs, no head is looked up or applied, and what is returned is the
\* single first-position output of the molecule encoder.
C3_MolClsOnly ==
    (ModelCalled /\ args.get_only_mol_cls)
    => /\ frame.ran = {0}
       /\ ~frame.looked /\ ~frame.invoked
       /\ frame.status = "return"
            => /\ Len(frame.ret) = 1
               /\ frame.ret[1] = Pooled0
       /\ frame.status = "raise"
            => Len(args.src_tokens_0) > MaxPositions0

C3_Witness ==
    /\ ModelCalled /\ args.get_only_mol_cls /\ args.use_only_mlp
    /\ args.classification_head_name \in DOMAIN classification_heads
    /\ args.use_which_embedding = "mol_pro"
    /\ frame.status = "return"

\* C4 (as claimed): without a head name (get_only_mol_cls false) and with
\* tokens within the limits, forward returns a triple whose first component
\* is None and whose other two are the embeddings.
C4_NoHeadReturnsTriple ==
    (/\ pc = "done" /\ entry = "forward" /\ ~args.get_only_mol_cls
     /\ ~HeadNamed /\ WithinLimits)
    => /\ frame.status = "return"
       /\ Len(frame.ret) = 3
       /\ frame.ret[1] = NoneValue

\* what the code does there: the return statement reads x, never assigned
C4_NoHeadRaises ==
    (/\ pc = "done" /\ entry = "forward" /\ ~args.get_only_mol_cls
     /\ ~HeadNamed /\ WithinLimits)
    => /\ frame.status = "raise"
       /\ frame.error = "UnboundLocalError"

\* C5: in full dual-branch mode the second and third returned values are the
\* first-position outputs of the molecule and protein encoders, in every
\* fusion mode, also when the head input was blended.
C5_FullReturnsRaw ==
    (ModelCalled /\ FullMode /\ frame.status = "return" /\ Len(frame.ret) = 3)
    => /\ frame.ret[2] = Pooled0
       /\ frame.ret[3] = Pooled1

C5_Witness ==
    /\ ModelCalled /\ FullMode /\ frame.status = "return" /\ Len(frame.ret) = 3
    /\ args.use_which_embedding = "mol_pro"
    /\ args.knn_cls_0 # Zero /\ args.knn_cls_1 # Zero
    /\ frame.head_input # frame.ret[2] \o frame.ret[3]

\* C6: in precomputed-embedding mode neither encoder runs, with or without a
\* head name and in every fusion mode, and the outcome is the one the same
\* call has on any other token sequences.
C6_MlpRunsNoEncoder ==
    (ModelCalled /\ MlpMode)
    => /\ frame.ran = {}
       /\ frame # NoFrame
       /\ \A t0 \in TokenSeqs(MaxPositions0), t1 \in TokenSeqs(MaxPositions1) :
            frame = forward(classification_heads,
                            [args EXCEPT !.src_tokens_0 = t0, !.src_tokens_1 = t1],
                            "raise")

C6_Witness ==
    /\ ModelCalled /\ MlpMode /\ frame.status = "return"
    /\ Len(args.src_tokens_0) > MaxPositions0
    /\ Len(args.src_tokens_1) > MaxPositions1

\* C7: in precomputed-embedding mode with a head name and a mode other than
\* 'mol_pro', the head input is cls_1 followed by cls_1, so the logits are
\* the head applied to that and do not involve cls_0.
C7_MlpPlainIsProteinTwice ==
    (/\ ModelCalled /\ MlpMode /\ HeadNamed
     /\ args.use_which_embedding # "mol_pro" /\ frame.looked)
    => /\ frame.head_input = args.cls_1 \o args.cls_1
       /\ frame.status = "return"
            => frame.ret[1] =
                 [head |-> classification_heads[args.classification_head_name],
                  input |-> args.cls_1 \o args.cls_1]

C7_Witness ==
    /\ ModelCalled /\ MlpMode /\ frame.invoked
    /\ args.use_which_embedding = "pro"
    /\ args.cls_0 # args.cls_1

\* C8: in precomputed-embedding mode the second and third returned values are
\* alpha*(w0*cls_0 + (1-w0)*knn_cls_0) and alpha*(w1*cls_1 + (1-w1)*knn_cls_1)
\* in every fusion mode, also when the head input was not blended.
C8_MlpReturnsBlends ==
    (ModelCalled /\ MlpMode /\ frame.status = "return")
    => /\ Len(frame.ret) = 3
       /\ IsBlend0(frame.ret[2])
       /\ IsBlend1(frame.ret[3])

C8_Witness ==
    /\ ModelCalled /\ MlpMode /\ frame.status = "return"
    /\ args.use_which_embedding = "no"
    /\ frame.head_input = args.cls_1 \o args.cls_1
    /\ frame.ret[2] # args.cls_0
    /\ frame.ret[3] # args.cls_1

\* the held outcome is that of an entry point given these tokens, whether or
\* not it got as far as the model
TokensGiven == pc = "done" /\ entry # RegisterEntry

IsLengthError(branch, tokens) ==
    /\ frame.status = "raise"
    /\ frame.error = "exceeds maximum length"
    /\ frame.branch = branch
    /\ frame.length = Len(tokens)
    /\ frame.limit = max_positions(branch)

\* C9 (as claimed): every call path that is to encode a molecule sequence
\* longer than the molecule limit fails with a length error naming the molecule branch, the
\* length and the limit; likewise for the protein sequence; for direct
\* forward calls and every hub entry point, batch variants included.
C9_OverlongFailsNamingBranch ==
    /\ (/\ TokensGiven /\ (args.get_only_mol_cls \/ ~args.use_only_mlp)
        /\ Len(args.src_tokens_0) > MaxPositions0)
         => IsLengthError(0, args.src_tokens_0)
    /\ (/\ TokensGiven /\ ~args.get_only_mol_cls /\ ~args.use_only_mlp
        /\ Len(args.src_tokens_0) <= MaxPositions0
        /\ Len(args.src_tokens_1) > MaxPositions1)
         => IsLengthError(1, args.src_tokens_1)

\* what the code does: the entry points that test the lengths do so
C9_CheckedEntriesFail ==
    (/\ TokensGiven /\ entry # "forward" /\ HubChecksLength(entry)
     /\ Len(args.src_tokens_0) > MaxPositions0)
    => IsLengthError(0, args.src_tokens_0)

\* C10, the calls: a call with a head name that is not in the head table
\* (get_only_mol_cls false) fails and gives no logits, with a lookup error
\* unless an over-long sequence made an encoder fail first, in both modes and
\* every fusion mode.
C10_UnregisteredHeadState ==
    (/\ ModelCalled /\ ~args.get_only_mol_cls /\ HeadNamed
     /\ args.classification_head_name \notin DOMAIN classification_heads)
    => /\ frame.status = "raise"
       /\ ~frame.invoked
       /\ frame.ret = <<>>
       /\ (args.use_only_mlp \/ WithinLimits)
            => frame.error = "KeyError" /\ frame.looked

\* C10, both parts: every call with an unregistered head name fails as above,
\* and every step that adds a name to the head table is a registration of
\* that name.
C10_UnregisteredHeadFails ==
    /\ []C10_UnregisteredHeadState
    /\ [][\A n \in HeadNames :
            (n \notin DOMAIN classification_heads
             /\ n \in DOMAIN classification_heads')
            => /\ entry' = RegisterEntry
               /\ args'.classification_head_name = n]_vars

C10_Witness ==
    /\ ModelCalled /\ MlpMode /\ frame.error = "KeyError"
    /\ args.classification_head_name = "h"
    /\ DOMAIN classification_heads = {DefaultHeadName}

----------------------------------------------------------------------------
(* Properties of the weight transfer *)

TransferEntry == "upgrade_state_dict_with_roberta_weights"

Transferred == pc = "done" /\ entry = TransferEntry /\ xfer.status = "return"

\* the checkpoint key the branch prefix "encoder." forms with a target key
BranchKey(k) == PrefixedKey(EncoderWord, ".", k[1])

\* C11: the returned mapping holds, under each target key k, the checkpoint's
\* tensor if the checkpoint (after the legacy rename) has the key "encoder." k
\* and the target's original value otherwise; with no such key for any target
\* key it equals the target and the logged count is 0.
C11_TransferByPrefixedKey ==
    Transferred =>
        LET renamed == Renamed(xfer.checkpoint)
            overlap == {k \in DOMAIN xfer.target : BranchKey(k) \in Keys(renamed)}
        IN /\ DOMAIN xfer.ret = DOMAIN xfer.target
           /\ \A k \in DOMAIN xfer.target :
                xfer.ret[k] = IF k \in overlap
                              THEN Get(renamed, BranchKey(k))
                              ELSE xfer.target[k]
           /\ overlap = {} => xfer.ret = xfer.target /\ xfer.logged = 0

\* what the code does: the statement holds for checkpoints in which every key
\* that begins with "encoder" continues with the dot
C11_DottedCheckpoints ==
    (/\ Transferred
     /\ \A key \in Keys(xfer.checkpoint) :
            startswith(key, EncoderWord) => startswith(key, EncoderWord \o <<".">>))
    => C11_TransferByPrefixedKey

\* C12: a legacy layernorm_embedding weight or bias key of the checkpoint is
\* renamed to emb_layer_norm before matching: its tensor overwrites the
\* target's emb_layer_norm entry, and the target's entries named
\* layernorm_embedding keep their values.
C12_LegacyKeysRenamed ==
    Transferred =>
        /\ \A pair \in {<<LegacyWeightKey, <<EmbLayerNormWeight>> >>,
                        <<LegacyBiasKey, <<EmbLayerNormBias>> >>} :
            (pair[1] \in Keys(xfer.checkpoint) /\ pair[2] \in DOMAIN xfer.target)
            => xfer.ret[pair[2]] = CheckpointTensor(pair[1])
        /\ \A k \in DOMAIN xfer.target \cap
                    {<<LayernormEmbeddingWeight>>, <<LayernormEmbeddingBias>>} :
            xfer.ret[k] = xfer.target[k]

C12_Witness ==
    /\ Transferred
    /\ Keys(xfer.checkpoint) = {LegacyWeightKey, LegacyBiasKey}
    /\ DOMAIN xfer.target = TargetKeys
    /\ xfer.ret[<<EmbLayerNormWeight>>] = CheckpointTensor(LegacyWeightKey)
    /\ xfer.ret[<<EmbLayerNormBias>>] = CheckpointTensor(LegacyBiasKey)
    /\ xfer.logged = 2

\* C13: with a checkpoint path that does not exist the transfer raises the
\* not-found error before reading anything: the target mapping is unchanged,
\* nothing is returned and nothing is counted.
C13_MissingCheckpointRaises ==
    (pc = "done" /\ entry = TransferEntry /\ ~xfer.exists)
    => /\ xfer.status = "raise"
       /\ xfer.error = "IOError"
       /\ xfer.reads = 0
       /\ xfer.state_dict = xfer.target
       /\ xfer.ret = None
       /\ xfer.logged = NoCount

C13_Witness ==
    /\ pc = "done" /\ entry = TransferEntry /\ ~xfer.exists
    /\ xfer.error = "IOError"
    /\ DOMAIN xfer.target = TargetKeys

----------------------------------------------------------------------------
(* Properties of head registration *)

\* a step that is one call of my_register_classification_head
RegisterStep == pc = "idle" /\ entry' = RegisterEntry

\* the inner width a registration with this inner_dim argument asks for
EffectiveInnerDim(inner_dim) ==
    IF inner_dim = 0 THEN encoder_embed_dim ELSE inner_dim

\* the head a registration with the held arguments describes
HeadAskedFor(a) ==
    [input_dim |-> 2 * encoder_embed_dim,
     inner_dim |-> EffectiveInnerDim(a.inner_dim),
     num_classes |-> a.num_classes]

\* C14: last write wins. A registration stores under its name the head built
\* from its own arguments and leaves every other name alone, no other step
\* changes the table, and a forward that names a registered head returns
\* logits of the head now stored under that name, so with the class count of
\* the latest registration; the table holds one head per name.
C14_LastRegistrationWins ==
    /\ [][IF RegisterStep
          THEN /\ DOMAIN classification_heads' =
                    DOMAIN classification_heads \cup {args'.classification_head_name}
               /\ \A n \in DOMAIN classification_heads' :
                    classification_heads'[n] =
                        IF n = args'.classification_head_name
                        THEN HeadAskedFor(args')
                        ELSE classification_heads[n]
          ELSE classification_heads' = classification_heads]_vars
    /\ [](/\ classification_heads \in
                [DOMAIN classification_heads ->
                    {HeadAskedFor([num_classes |-> c, inner_dim |-> d]) :
                        c \in 1..MaxClasses, d \in {0, encoder_embed_dim + 1}}]
          /\ DOMAIN classification_heads \subseteq HeadNames
          /\ (pc = "done" /\ entry = "forward" /\ frame.invoked)
                => /\ frame.ret[1].head =
                        classification_heads[args.classification_head_name]
                   /\ frame.status = "return")

\* the held call registered "h" over a stored head of another shape (it was
\* warned about), with fewer classes than before, and "h" now holds its head
C14_Witness ==
    /\ pc = "done" /\ entry = RegisterEntry
    /\ args.classification_head_name = "h"
    /\ frame.warned
    /\ args.num_classes = 1 /\ args.inner_dim = 0
    /\ classification_heads["h"] = HeadAskedFor(args)
    /\ DefaultHeadName \in DOMAIN classification_heads
    /\ classification_heads[DefaultHeadName].num_classes = MaxClasses

\* C15: re-registering a name with a class count or an inner dimension other
\* than the stored head's logs the warning and still replaces the head;
\* registering a name that is not in the table logs no warning.
C15_ReRegisterWarnsAndReplaces ==
    [][RegisterStep =>
        LET name == args'.classification_head_name
        IN /\ (/\ name \in DOMAIN classification_heads
               /\ \/ args'.num_classes # classification_heads[name].num_classes
                  \/ EffectiveInnerDim(args'.inner_dim)
                        # classification_heads[name].inner_dim)
              => /\ frame'.warned
                 /\ frame'.status = "return"
                 /\ classification_heads'[name] = HeadAskedFor(args')
           /\ name \notin DOMAIN classification_heads
              => /\ ~frame'.warned
                 /\ frame'.status = "return"
                 /\ classification_heads'[name] = HeadAskedFor(args')]_vars

\* the held call re-registered "h" with another class count and the same
\* inner dimension, and was warned about
C15_Witness ==
    /\ pc = "done" /\ entry = RegisterEntry
    /\ args.classification_head_name = "h"
    /\ frame.warned
    /\ classification_heads["h"].num_classes = args.num_classes
    /\ args.inner_dim = encoder_embed_dim + 1

\* C16: every head in the table has input width 2 * encoder_embed_dim, and
\* that is the width of every head input forward builds from the two branch
\* embeddings, each of encoder_embed_dim components.
C16_HeadInputWidth ==
    /\ \A n \in DOMAIN classification_heads :
        classification_heads[n].input_dim = 2 * encoder_embed_dim
    /\ (pc = "done" /\ entry = "forward" /\ frame.looked)
        => /\ Len(frame.head_input) = 2 * encoder_embed_dim
           /\ Len(Own0) = encoder_embed_dim
           /\ Len(Own1) = encoder_embed_dim
    /\ (pc = "done" /\ entry = "forward" /\ frame.invoked)
        => /\ frame.ret[1].head.input_dim = Len(frame.ret[1].input)
           /\ frame.ret[1].input = frame.head_input

C16_Witness ==
    /\ pc = "done" /\ entry = "forward" /\ frame.invoked /\ FullMode
    /\ args.use_which_embedding = "mol_pro"
    /\ frame.ret[1].head.inner_dim = encoder_embed_dim + 1
    /\ frame.ret[1].head.input_dim = Len(frame.head_input)
    /\ Len(frame.head_input) = 2 * encoder_embed_dim

----------------------------------------------------------------------------
(* Properties of model construction *)

BuildHeld == pc = "done" /\ entry = "build_model"

\* the branches whose constructor loads pretrained weights
LoadsMolecule(cfg) == ~cfg.init_protein_encoder_only
LoadsProtein(cfg) == ~cfg.init_molecule_encoder_only

\* a branch that loads has no checkpoint file
MissingLoaded(cfg) ==
    \/ LoadsMolecule(cfg) /\ ~cfg.molecule_checkpoint_exists
    \/ LoadsProtein(cfg) /\ ~cfg.protein_checkpoint_exists

\* both max-position attributes hold a number
LimitsGiven(cfg) ==
    /\ cfg.max_positions_molecule \notin {AbsentAttr, NoneLimit}
    /\ cfg.max_positions_protein \notin {AbsentAttr, NoneLimit}

\* C17: after build_model, in each encoder every parameter of the first 4
\* children of the sentence encoder is frozen, for each later child every
\* parameter of its first 12 sub-children is frozen and those of sub-children
\* at index 12 and above are left trainable; both encoders get the same mask.
C17_FreezePolicy ==
    (BuildHeld /\ build.status = "return")
    => /\ Len(build.requires_grad) = 2
       /\ \A b \in 1..2 :
            /\ DOMAIN build.requires_grad[b] = ParamPlaces
            /\ \A place \in ParamPlaces :
                LET i == place[1]
                    j == place[2]
                IN /\ i < 4 => ~build.requires_grad[b][place]
                   /\ (i >= 4 /\ j >= 0 /\ j < 12) => ~build.requires_grad[b][place]
                   /\ (i >= 4 /\ j >= 12) => build.requires_grad[b][place]
       /\ build.requires_grad[1] = build.requires_grad[2]

C17_Witness ==
    /\ BuildHeld /\ build.model
    /\ build.encoders[1].loaded /\ ~build.encoders[2].loaded
    /\ ~build.requires_grad[1][<<3, 12>>]
    /\ ~build.requires_grad[2][<<4, 11>>]
    /\ build.requires_grad[2][<<4, 12>>]

\* C18: build_model with both init_molecule_encoder_only and
\* init_protein_encoder_only fails at once with a configuration error: no
\* encoder constructor runs, no checkpoint is looked at, no model is returned.
C18_BothInitOnlyFails ==
    (/\ BuildHeld
     /\ build.cfg.init_molecule_encoder_only
     /\ build.cfg.init_protein_encoder_only)
    => /\ build.status = "raise"
       /\ build.error = "AssertionError"
       /\ build.encoders = <<>>
       /\ build.requires_grad = <<>>
       /\ ~build.model

C18_Witness ==
    /\ BuildHeld
    /\ build.cfg.init_molecule_encoder_only
    /\ build.cfg.init_protein_encoder_only
    /\ build.cfg.molecule_checkpoint_attr /\ build.cfg.protein_checkpoint_attr
    /\ build.cfg.molecule_checkpoint_exists /\ build.cfg.protein_checkpoint_exists
    /\ LimitsGiven(build.cfg)
    /\ build.error = "AssertionError"

\* C19 (as claimed): construction with a checkpoint path that names no file
\* fails with the not-found error and yields no model, whatever the init-only
\* flags (here: in a configuration that passes the assertions and gives both
\* limits, so that nothing else can fail first).
C19_MissingFileAlwaysFails ==
    (/\ BuildHeld /\ ConfigAsserts(build.cfg) /\ LimitsGiven(build.cfg)
     /\ \/ ~build.cfg.molecule_checkpoint_exists
        \/ ~build.cfg.protein_checkpoint_exists)
    => /\ build.status = "raise"
       /\ build.error = "IOError"
       /\ ~build.model

\* C19: construction in which a branch that loads pretrained weights (the
\* molecule branch unless init_protein_encoder_only, the protein branch unless
\* init_molecule_encoder_only) has no checkpoint file fails and yields no
\* model, no constructor tests its path or reads its file more than once and
\* a missing file is never read; the failure is the not-found error when the
\* configuration passes the assertions and gives both limits. A missing file
\* of a branch that does not load fails nothing.
C19_MissingLoadedFileFails ==
    /\ (BuildHeld /\ build.cfg.molecule_checkpoint_attr
        /\ build.cfg.protein_checkpoint_attr /\ MissingLoaded(build.cfg))
       => /\ build.status = "raise"
          /\ ~build.model
          /\ build.requires_grad = <<>>
          /\ (ConfigAsserts(build.cfg) /\ LimitsGiven(build.cfg))
                => /\ build.error = "IOError"
                   /\ build.encoders[Len(build.encoders)].reads = 0
    /\ BuildHeld
       => /\ Len(build.encoders) <= 2
          /\ \A n \in DOMAIN build.encoders :
                /\ build.encoders[n].checks <= 1
                /\ build.encoders[n].reads <= build.encoders[n].checks
    /\ (BuildHeld /\ ConfigAsserts(build.cfg) /\ LimitsGiven(build.cfg)
        /\ ~MissingLoaded(build.cfg))
       => build.status = "return" /\ build.model

\* the protein branch does not load, the molecule checkpoint is missing
C19_Witness ==
    /\ BuildHeld
    /\ build.cfg.init_molecule_encoder_only
    /\ ~build.cfg.molecule_checkpoint_exists
    /\ build.cfg.protein_checkpoint_exists
    /\ build.error = "IOError"
    /\ Len(build.encoders) = 1
    /\ build.encoders[1].checks = 1

\* C20 (as claimed): when args has no molecule max-position attribute the
\* molecule encoder is constructed with limit 512, and when it has no protein
\* one the protein encoder is constructed with limit 1024 (in a configuration
\* that passes the assertions and whose checkpoint files exist).
C20_DefaultLimitsBuiltIn ==
    (/\ BuildHeld /\ ConfigAsserts(build.cfg)
     /\ build.cfg.molecule_checkpoint_exists
     /\ build.cfg.protein_checkpoint_exists)
    => /\ build.cfg.max_positions_molecule = AbsentAttr
          => /\ Len(build.encoders) >= 1
             /\ build.encoders[1].status = "return"
             /\ build.encoders[1].limit = DEFAULT_MAX_MOLECULE_POSITIONS
       /\ (/\ build.cfg.max_positions_protein = AbsentAttr
           /\ build.cfg.max_positions_molecule = max_positions(0))
          => /\ Len(build.encoders) = 2
             /\ build.encoders[2].status = "return"
             /\ build.encoders[2].limit = DEFAULT_MAX_PROTEIN_POSITIONS

\* what the code does: the defaults go to max_source_positions and
\* max_target_positions, the constructors read max_positions_molecule and
\* max_positions_protein, so a missing attribute fails the constructor and an
\* encoder is only ever built with the attribute's own value
C20_DefaultsNeverRead ==
    (BuildHeld /\ ConfigAsserts(build.cfg))
    => /\ build.cfg.max_positions_molecule = AbsentAttr
          => /\ build.max_source_positions = DEFAULT_MAX_MOLECULE_POSITIONS
             /\ build.status = "raise"
             /\ build.error = "AttributeError"
             /\ ~build.model
       /\ \A n \in DOMAIN build.encoders :
            build.encoders[n].status = "return"
            => build.encoders[n].limit =
                 IF n = 1 THEN build.cfg.max_positions_molecule
                          ELSE build.cfg.max_positions_protein

----------------------------------------------------------------------------
(* Properties of forward as a whole *)

----------------------------------------------------------------------------
(* Properties of the re-registration warning *)

\* C22 (as claimed): re-registering a name with the stored head's class count
\* and the stored head's effective inner dimension logs no warning, also when
\* inner_dim is omitted and defaults to encoder_embed_dim.
C22_WarnsOnlyOnShapeChange ==
    [][RegisterStep =>
        LET name == args'.classification_head_name
        IN (/\ name \in DOMAIN classification_heads
            /\ args'.num_classes = classification_heads[name].num_classes
            /\ EffectiveInnerDim(args'.inner_dim)
                    = classification_heads[name].inner_dim)
           => ~frame'.warned]_vars

\* what the code does: it compares the inner_dim argument as given, so an
\* omitted inner_dim differs from every stored width and always warns, while a
\* re-registration that gives the stored width and class count does not
C22_WarnsOnArgumentChange ==
    [][RegisterStep =>
        LET name == args'.classification_head_name
        IN frame'.warned <=>
            /\ name \in DOMAIN classification_heads
            /\ \/ args'.num_classes # classification_heads[name].num_classes
               \/ args'.inner_dim = 0
               \/ args'.inner_dim # classification_heads[name].inner_dim]_vars

----------------------------------------------------------------------------
(* Properties of the key matching of the weight transfer *)

\* the target entries whose value the transfer changed
Overwritten == {k \in DOMAIN xfer.target : xfer.ret[k] # xfer.target[k]}

\* C23 (as claimed): a checkpoint entry is used only when its key is exactly
\* "encoder." followed by a target key (so a key that begins with "encoder"
\* without the dot overwrites nothing), the returned mapping has the key set
\* of the target, and the logged count is the number of target entries
\* overwritten.
C23_ExactPrefixOnly ==
    Transferred =>
        LET renamed == Renamed(xfer.checkpoint)
        IN /\ \A k \in Overwritten :
                /\ BranchKey(k) \in Keys(renamed)
                /\ xfer.ret[k] = Get(renamed, BranchKey(k))
           /\ DOMAIN xfer.ret = DOMAIN xfer.target
           /\ xfer.logged = Cardinality(Overwritten)

\* what the code does: the key set is kept, and the count is the number of
\* checkpoint keys (after the rename) that begin with "encoder" and whose
\* remainder after one more character is a target key, dot or no dot
C23_WordPrefixCounted ==
    Transferred =>
        LET renamed == Renamed(xfer.checkpoint)
        IN /\ DOMAIN xfer.ret = DOMAIN xfer.target
           /\ xfer.logged =
                Cardinality({key \in Keys(renamed) :
                                /\ startswith(key, EncoderWord)
                                /\ Subkey(key) \in DOMAIN xfer.target})
           /\ \A k \in Overwritten :
                \E key \in Keys(renamed) :
                    /\ startswith(key, EncoderWord)
                    /\ Subkey(key) = k
                    /\ xfer.ret[k] = Get(renamed, key)

----------------------------------------------------------------------------
(* Properties of the hub entry points' use of forward's result *)

\* the held outcome is that of a hub entry point called with tokens within
\* the limits, a registered head and the tensors its mode reads
HubCallInOrder ==
    /\ pc = "done" /\ entry \in HubEntries
    /\ WithinLimits
    /\ args.classification_head_name \in DOMAIN classification_heads
    /\ frame.error # "AttributeError"

FiveNameEntries ==
    {"myextract_features_separate_cls_attn",
     "myextract_features_separate_knn_cls"}

\* C24 (as claimed): every hub entry point unpacks as many values as forward
\* returns on its path; myextract_features_separate_knn_cls, within the limits
\* and with a registered head, completes in each of the modes 'no', 'mol',
\* 'pro' and 'mol_pro'.
C24_HubUnpacksWhatForwardReturns ==
    HubCallInOrder
    => /\ frame.error # "not enough values to unpack"
       /\ entry = "myextract_features_separate_knn_cls"
            => /\ frame.status = "return"
               /\ Len(frame.ret) = HubUnpacks(entry)

\* what the code does: forward returns three values on the dual-branch path,
\* so the two entry points that unpack five names fail on the unpacking in
\* every mode, and the entry points that unpack three names do not
C24_FiveNameEntriesFail ==
    HubCallInOrder
    => IF entry \in FiveNameEntries
       THEN /\ frame.status = "raise"
            /\ frame.error = "not enough values to unpack"
            /\ frame.invoked
       ELSE frame.error # "not enough values to unpack"

============================================================================
